---- MODULE Spec2Model ----
(***************************************************************************)
(* Model of mcp_server_whisper/server.py: the format capability resolver,  *)
(* the conversion / compression pipeline and the asyncio.gather batch      *)
(* tools (convert_audio, compress_audio, transcribe_audio,                 *)
(* transcribe_with_llm, transcribe_with_enhancement).                      *)
(*                                                                         *)
(* A file name is a sequence of atoms: "." is one atom, every other atom   *)
(* is a non-empty run of characters without a dot, so pathlib's character  *)
(* arithmetic on names maps one-to-one onto positions in the sequence.     *)
(***************************************************************************)
EXTENDS Integers, Sequences, FiniteSets, TLC

\* ------------------------------------------------------------------ bounds
MaxN == 2

\* --------------------------------------------------------------- optionals
None == [tag |-> "None"]
Some(x) == [tag |-> "Some", val |-> x]
IsNone(v) == v.tag = "None"

\* ------------------------------------------------------------------- paths
Path(d, n) == [parent |-> d, name |-> n]

\* str.lower() on the atoms that occur in the modelled names
lower_atom(a) ==
    CASE a = "MP3" -> "mp3"
      [] a = "WAV" -> "wav"
      [] a = "M4A" -> "m4a"
      [] OTHER -> a

lower(s) == [i \in 1..Len(s) |-> lower_atom(s[i])]

\* str.rfind("."): position of the last dot, 0 when there is none
rfind_dot(n) ==
    LET dots == {i \in 1..Len(n) : n[i] = "."}
    IN  IF dots = {} THEN 0 ELSE CHOOSE i \in dots : \A j \in dots : j <= i

\* PurePath.suffix: the last dot and what follows it, unless the dot is the
\* first or the last character of the name
suffix(p) ==
    LET n == p.name
        i == rfind_dot(n)
    IN  IF 1 < i /\ i < Len(n) THEN SubSeq(n, i, Len(n)) ELSE <<>>

\* PurePath.stem
stem(p) ==
    LET n == p.name
        i == rfind_dot(n)
    IN  IF 1 < i /\ i < Len(n) THEN SubSeq(n, 1, i - 1) ELSE n

\* PurePath.with_suffix(s): the name without its old suffix, then s
with_suffix(p, s) ==
    Path(p.parent, SubSeq(p.name, 1, Len(p.name) - Len(suffix(p))) \o s)

\* f".{target_format}"
dot(fmt) == <<".", fmt>>

\* ---------------------------------------------------- capability constants
WHISPER_AUDIO_FORMATS ==
    {dot("mp3"), dot("wav"), dot("mp4"), dot("mpeg"), dot("mpga"), dot("m4a"), dot("webm")}

GPT_4O_AUDIO_FORMATS == {dot("mp3"), dot("wav")}

SupportedAudioFormat == {"mp3", "wav"}

EnhancementType == {"detailed", "storytelling", "professional", "analytical"}

AudioLLMDefault == "gpt-4o-audio-preview-2024-10-01"

WhisperDefault == "whisper-1"

\* -------------------------------------------------------------- file system
MB == 1024 * 1024

\* A file: regular file or directory, readable or not, its byte length and
\* the properties of the audio stream it holds.
File(sz, rate, ch, fmt, au) ==
    [kind |-> "file", readable |-> TRUE, size |-> sz, rate |-> rate,
     channels |-> ch, fmt |-> fmt, audio |-> au]

a_wav == Path("in", <<"a", ".", "wav">>)
a_m4a == Path("in", <<"a", ".", "m4a">>)
a_mp3 == Path("in", <<"a", ".", "mp3">>)
b_MP3 == Path("in", <<"b", ".", "MP3">>)
gone_m4a == Path("in", <<"gone", ".", "m4a">>)
gone_mp3 == Path("in", <<"gone", ".", "mp3">>)
sub_wav == Path("in", <<"sub", ".", "wav">>)
locked_mp3 == Path("in", <<"locked", ".", "mp3">>)
notes_txt == Path("in", <<"notes", ".", "txt">>)
out_x_mp3 == Path("out", <<"x", ".", "mp3">>)
c_mp4 == Path("in", <<"c", ".", "mp4">>)
c_mpeg == Path("in", <<"c", ".", "mpeg">>)
c_mpga == Path("in", <<"c", ".", "mpga">>)
c_webm == Path("in", <<"c", ".", "webm">>)
c_WAV == Path("in", <<"c", ".", "WAV">>)
c_M4A == Path("in", <<"c", ".", "M4A">>)
c_ogg == Path("in", <<"c", ".", "ogg">>)
README == Path("in", <<"README">>)
hidden_mp3 == Path("in", <<".", "mp3">>)
tar_MP3 == Path("in", <<"a", ".", "tar", ".", "MP3">>)

\* The files present before any tool is called.
InitFs ==
    (a_wav :> File(MB + 1, 44100, 1, "wav", "A")) @@
    (a_m4a :> File(25 * MB + 1, 48000, 2, "m4a", "B")) @@
    (a_mp3 :> File(25 * MB + 1, 44100, 2, "mp3", "C")) @@
    (b_MP3 :> File(MB, 22050, 1, "mp3", "D")) @@
    (locked_mp3 :> [File(2 * MB, 44100, 2, "mp3", "E") EXCEPT !.readable = FALSE]) @@
    (notes_txt :> File(10, 0, 0, "txt", "F")) @@
    (c_mp4 :> File(MB, 44100, 2, "mp4", "G")) @@
    (c_mpeg :> File(MB, 44100, 2, "mpeg", "H")) @@
    (c_mpga :> File(MB, 44100, 2, "mpga", "I")) @@
    (c_webm :> File(MB, 48000, 2, "webm", "J")) @@
    (c_WAV :> File(MB, 44100, 2, "wav", "K")) @@
    (c_M4A :> File(MB, 44100, 2, "m4a", "L")) @@
    (c_ogg :> File(MB, 44100, 2, "ogg", "M")) @@
    (README :> File(10, 0, 0, "txt", "N")) @@
    (hidden_mp3 :> File(MB, 44100, 2, "mp3", "O")) @@
    (tar_MP3 :> File(2 * MB, 44100, 2, "mp3", "P")) @@
    (sub_wav :> [File(0, 0, 0, "dir", "-") EXCEPT !.kind = "dir"])

exists(f, p) == p \in DOMAIN f
is_file(f, p) == p \in DOMAIN f /\ f[p].kind = "file"
\* open(p, "rb") succeeds
can_read(f, p) == is_file(f, p) /\ f[p].readable
\* open(p, "wb+") succeeds
can_write(f, p) == ~exists(f, p) \/ (f[p].kind = "file")

\* -------------------------------------------------------------- exceptions
\* An exception is its type, the fixed text that starts its message and the
\* file paths the message spells out (a wrapper's message embeds str(e)).
Exc(type, msg, ps) == [type |-> type, msg |-> msg, paths |-> ps]

OSError(p) == Exc("OSError", "errno", {p})
CodecError == Exc("CouldntDecodeError", "codec", {})
APIError == Exc("APIError", "remote", {})

\* lines 28-37: the enhancement templates as the module defines them
ENHANCEMENT_PROMPTS ==
    [t \in EnhancementType |->
        CASE t = "detailed" ->
               "Please transcribe this audio and include details about tone of voice, emotional undertones, and any background elements you notice. Make it rich and descriptive."
          [] t = "storytelling" ->
               "Transform this audio into an engaging narrative. Maintain the core message but present it as a story."
          [] t = "professional" ->
               "Transcribe this audio and format it in a professional, business-appropriate manner. Clean up any verbal fillers and structure it clearly."
          [] t = "analytical" ->
               "Transcribe this audio and analyze the speech patterns, key discussion points, and overall structure. Include observations about delivery and organization."]

\* -------------------------------------------------------------------- state
VARIABLES
    fs,       \* the file system: path -> file
    op,       \* the tool being served, "idle" before the call
    inputs,   \* the tool's argument: the list of per-item parameter records
    tasks,    \* one record per process_single coroutine handed to gather
    outer,    \* the future asyncio.gather returns to the tool's caller
    support,  \* what get_audio_file_support returned
    enhancement_prompts,  \* the module-level dict ENHANCEMENT_PROMPTS at run time
    served    \* whether a tool call has already been answered

vars == <<fs, op, inputs, tasks, outer, support, enhancement_prompts, served>>

\* One external effect or attempt of a task: which function made it, what it
\* was, on which path, whether it succeeded and whether it changed the file.
Event(by, ev, p, ok, touched) ==
    [by |-> by, ev |-> ev, path |-> p, ok |-> ok, touched |-> touched]

NewTask(item, pc, out) ==
    [pc |-> pc, item |-> item,
     input_file |-> item.input_file_path,  \* the local the pipeline reassigns
     output_path |-> out,                  \* the caller-supplied destination
     dest |-> None,                        \* output_path local of the running callee
     file_size |-> None,                   \* file_size, read before the decision
     audio |-> None,                       \* the AudioSegment loaded by from_file
     size_seen |-> None,                   \* new_size, read after the downsample
     sent |-> None,                        \* user_content given to the chat model
     result |-> None, exc |-> None, trace |-> <<>>]

\* last is the child whose callback ran most recently (0: none yet)
Pending == [state |-> "pending", results |-> <<>>, exc |-> None, last |-> 0]

\* gather's nfinished: the children whose callback has run
nfinished(ts) == Cardinality({j \in 1..Len(ts) : ts[j].pc = "done"})

\* Variant of gather_results: the results in reverse position
gather_results_reversed(ts) == [j \in 1..Len(ts) |-> ts[Len(ts) + 1 - j].result.val]

\* asyncio.gather(..., return_exceptions=False): the list of the children's
\* results, by position
gather_results(ts) == [j \in 1..Len(ts) |-> ts[j].result.val]

\* Variant of done_callback: a child's exception is dropped and the outer
\* future completes with the results of the children that returned
done_callback_partial(o, ts, i) ==
    LET o1 == [o EXCEPT !.last = i]
        good == SelectSeq([j \in 1..Len(ts) |-> ts[j].result], LAMBDA r : ~IsNone(r))
    IN  IF o.state # "pending" THEN o1
        ELSE IF nfinished(ts) = Len(ts)
             THEN [o1 EXCEPT !.state = "returned",
                             !.results = [j \in 1..Len(good) |-> good[j].val]]
        ELSE o1

\* gather's callback on the completion of child i: a finished outer future is
\* left alone, the first exception completes it at once, and the last child
\* to finish completes it with the results
done_callback(o, ts, i) ==
    LET o1 == [o EXCEPT !.last = i]
    IN  IF o.state # "pending" THEN o1
        ELSE IF ~IsNone(ts[i].exc)
             THEN [o1 EXCEPT !.state = "raised", !.exc = ts[i].exc]
        ELSE IF nfinished(ts) = Len(ts)
             THEN [o1 EXCEPT !.state = "returned", !.results = gather_results(ts)]
        ELSE o1

\* gather over the coroutines of a tool call; an empty list completes at once
gather(items, pc) ==
    /\ tasks' = [j \in 1..Len(items) |->
                    NewTask(items[j], pc,
                            IF "output_file_path" \in DOMAIN items[j]
                            THEN items[j].output_file_path ELSE None)]
    /\ outer' = IF items = <<>> THEN [Pending EXCEPT !.state = "returned"] ELSE Pending

\* Variant of Step: the first child to fail has its unfinished siblings
\* cancelled
Step_cancels_siblings(i, t) ==
    /\ tasks' = [j \in 1..Len(tasks) |->
                    IF j = i THEN t
                    ELSE IF /\ t.pc = "done" /\ ~IsNone(t.exc) /\ outer.state = "pending"
                            /\ tasks[j].pc # "done"
                         THEN [tasks[j] EXCEPT !.pc = "done",
                                  !.exc = Some([type |-> "CancelledError", msg |-> "",
                                                paths |-> {}])]
                    ELSE tasks[j]]
    /\ outer' = IF t.pc = "done" THEN done_callback(outer, tasks', i) ELSE outer

\* task i moves to t; when that ends the coroutine, gather's callback runs
Step(i, t) ==
    /\ tasks' = [tasks EXCEPT ![i] = t]
    /\ outer' = IF t.pc = "done" THEN done_callback(outer, tasks', i) ELSE outer

Return(t, r) == [t EXCEPT !.pc = "done", !.result = Some(r)]
Raise(t, e) == [t EXCEPT !.pc = "done", !.exc = Some(e)]
Log(t, e) == [t EXCEPT !.trace = Append(@, e)]

Init ==
    /\ fs = InitFs
    /\ op = "idle"
    /\ inputs = <<>>
    /\ tasks = <<>>
    /\ outer = Pending
    /\ support = None
    /\ enhancement_prompts = ENHANCEMENT_PROMPTS
    /\ served = FALSE

\* ------------------------------------------------------ conversion engine
\* Sizes an encoder may produce: at the 1 MB threshold and above the 25 MB one
OutSizes == {MB, 25 * MB + 1}

\* Size a format conversion produces (no later step depends on it)
ConvertSizes == {MB}

\* line 224
convert_raise(e) == Exc("RuntimeError", "Audio conversion failed", e.paths)
\* line 304
convert_audio_raise(item, e) ==
    Exc("RuntimeError", "Audio conversion failed for", {item.input_file_path} \cup e.paths)
\* line 254
compress_raise(e) == Exc("RuntimeError", "Error compressing mp3 file", e.paths)
\* line 278
mcf_convert_raise(e) ==
    Exc("RuntimeError", "[maybe_compress_file] Error converting to MP3", e.paths)
\* line 284
mcf_compress_raise(e) ==
    Exc("RuntimeError", "[maybe_compress_file] Error compressing MP3 file", e.paths)
\* line 323
compress_audio_raise(item, e) ==
    Exc("RuntimeError", "Audio compression failed for", {item.input_file_path} \cup e.paths)

\* Variant of convert_args: the compression pipeline asks for a wav
convert_args_wav(t) ==
    IF op = "convert_audio"
    THEN [input_file |-> t.item.input_file_path, output_path |-> t.item.output_file_path,
          target_format |-> t.item.target_format]
    ELSE [input_file |-> t.input_file, output_path |-> None, target_format |-> "wav"]

\* The arguments convert_to_supported_format is called with: the item's own
\* (line 299) or, from the compression pipeline, (input_file, None, "mp3")
\* (line 276).
convert_args(t) ==
    IF op = "convert_audio"
    THEN [input_file |-> t.item.input_file_path, output_path |-> t.item.output_file_path,
          target_format |-> t.item.target_format]
    ELSE [input_file |-> t.input_file, output_path |-> None, target_format |-> "mp3"]

\* Variant of convert_output_path: the new extension is added to the whole
\* name instead of replacing the old one
convert_output_path_appends(input_file, output_path, target_format) ==
    IF IsNone(output_path)
    THEN Path(input_file.parent, input_file.name \o dot(target_format))
    ELSE output_path.val

\* lines 205-206: the destination convert_to_supported_format writes
convert_output_path(input_file, output_path, target_format) ==
    IF IsNone(output_path) THEN with_suffix(input_file, dot(target_format))
    ELSE output_path.val

\* An exception leaving convert_to_supported_format, as its caller re-raises it
convert_fail(t, e) ==
    IF op = "convert_audio"
    THEN Raise(t, convert_audio_raise(t.item, convert_raise(e)))
    ELSE Raise(t, compress_audio_raise(t.item, mcf_convert_raise(convert_raise(e))))

\* convert_to_supported_format up to the end of AudioSegment.from_file
ConvertLoad(i, decodes) ==
    /\ i \in 1..Len(tasks)
    /\ tasks[i].pc = "cvt_load"
    /\ LET t == tasks[i]
           a == convert_args(t)
           out == convert_output_path(a.input_file, a.output_path, a.target_format)
           ok == can_read(fs, a.input_file) /\ decodes
           t1 == Log([t EXCEPT !.dest = Some(out)],
                     Event("convert", "from_file", a.input_file, ok, FALSE))
       IN  IF ok
           THEN Step(i, [t1 EXCEPT !.pc = "cvt_export", !.audio = Some(fs[a.input_file])])
           ELSE Step(i, convert_fail(t1, IF can_read(fs, a.input_file)
                                         THEN CodecError ELSE OSError(a.input_file)))
    /\ UNCHANGED <<fs, op, inputs, support, enhancement_prompts, served>>

\* audio.export: the destination is opened for writing (and so emptied)
\* before the encoder runs; a failed encode leaves it empty
export(f, out, ok, file) ==
    IF ~can_write(f, out) THEN f
    ELSE IF ok THEN (out :> file) @@ f
    ELSE (out :> File(0, 0, 0, file.fmt, "-")) @@ f

\* convert_to_supported_format from audio.export to its return
ConvertExport(i, encodes, sz) ==
    /\ i \in 1..Len(tasks)
    /\ tasks[i].pc = "cvt_export"
    /\ LET t == tasks[i]
           a == convert_args(t)
           out == t.dest.val
           ok == can_write(fs, out) /\ encodes
           file == File(sz, t.audio.val.rate, 2, a.target_format, t.audio.val.audio)
           t1 == Log(t, Event("convert", "export", out, ok, can_write(fs, out)))
       IN  /\ fs' = export(fs, out, encodes, file)
           /\ IF ~ok
              THEN Step(i, convert_fail(t1, IF can_write(fs, out)
                                            THEN CodecError ELSE OSError(out)))
              ELSE IF op = "convert_audio"
                   THEN Step(i, Return(t1, [output_path |-> out]))
                   ELSE Step(i, [t1 EXCEPT !.input_file = out, !.pc = "cmp_load",
                                           !.dest = None, !.audio = None])
    /\ UNCHANGED <<op, inputs, support, enhancement_prompts, served>>

\* ---------------------------------------------------- compression pipeline
out_sample_rate == 11025

\* Variant of compressed_path: the whole name is kept, suffix included
compressed_path_keeps_suffix(mp3_file_path) ==
    Path(mp3_file_path.parent, <<"compressed_">> \o mp3_file_path.name \o dot("mp3"))

\* line 236: the sibling compressed_<stem>.mp3
compressed_path(mp3_file_path) ==
    Path(mp3_file_path.parent, <<"compressed_">> \o stem(mp3_file_path) \o dot("mp3"))

\* lines 235-236
compress_output_path(mp3_file_path, output_path) ==
    IF IsNone(output_path) THEN compressed_path(mp3_file_path) ELSE output_path.val

\* Variant of needs_conversion: a wav is downsampled without conversion too
needs_conversion_wav_passes(input_file) ==
    lower(suffix(input_file)) \notin {dot("mp3"), dot("wav")}

\* line 274: the pipeline converts first unless the source is an mp3
needs_conversion(input_file) == lower(suffix(input_file)) # dot("mp3")

\* Variant of within_threshold: a file exactly at the threshold is compressed
within_threshold_strict(file_size, max_mb) == file_size < max_mb * 1024 * 1024

\* line 268
within_threshold(file_size, max_mb) == file_size <= max_mb * 1024 * 1024

\* An exception leaving compress_mp3_file, as maybe_compress_file and
\* process_single re-raise it
compress_fail(t, e) == Raise(t, compress_audio_raise(t.item, mcf_compress_raise(e)))

\* maybe_compress_file from its start to the size decision
MaybeCompressSize(i) ==
    /\ i \in 1..Len(tasks)
    /\ tasks[i].pc = "mcf_size"
    /\ LET t == tasks[i]
           src == t.input_file
           ok == can_read(fs, src)
           t1 == Log([t EXCEPT !.file_size = IF ok THEN Some(fs[src].size) ELSE None],
                     Event("maybe_compress_file", "read", src, ok, FALSE))
       IN  IF ~ok THEN Step(i, Raise(t1, compress_audio_raise(t.item, OSError(src))))
           ELSE IF within_threshold(fs[src].size, t.item.max_mb)
                THEN Step(i, Return(t1, [output_path |-> src]))
           ELSE IF needs_conversion(src)
                THEN Step(i, [t1 EXCEPT !.pc = "cvt_load"])
           ELSE Step(i, [t1 EXCEPT !.pc = "cmp_load"])
    /\ UNCHANGED <<fs, op, inputs, support, enhancement_prompts, served>>

\* compress_mp3_file up to the end of AudioSegment.from_file
CompressLoad(i, decodes) ==
    /\ i \in 1..Len(tasks)
    /\ tasks[i].pc = "cmp_load"
    /\ LET t == tasks[i]
           src == t.input_file
           out == compress_output_path(src, t.output_path)
           ok == can_read(fs, src) /\ decodes
           t1 == Log([t EXCEPT !.dest = Some(out)],
                     Event("compress", "from_file", src, ok, FALSE))
       IN  IF lower(suffix(src)) # dot("mp3")
           THEN Step(i, compress_fail(t, Exc("ValueError", "not .mp3", {})))
           ELSE IF ok
                THEN Step(i, [t1 EXCEPT !.pc = "cmp_export", !.audio = Some(fs[src])])
           ELSE Step(i, compress_fail(t1, compress_raise(IF can_read(fs, src)
                                                         THEN CodecError ELSE OSError(src))))
    /\ UNCHANGED <<fs, op, inputs, support, enhancement_prompts, served>>

\* compress_mp3_file from audio_file.export to its return
CompressExport(i, encodes, sz) ==
    /\ i \in 1..Len(tasks)
    /\ tasks[i].pc = "cmp_export"
    /\ LET t == tasks[i]
           out == t.dest.val
           ok == can_write(fs, out) /\ encodes
           au == t.audio.val
           file == File(sz, out_sample_rate, au.channels, "mp3", au.audio)
           t1 == Log(t, Event("compress", "export", out, ok, can_write(fs, out)))
       IN  /\ fs' = export(fs, out, encodes, file)
           /\ IF ~ok
              THEN Step(i, compress_fail(t1, compress_raise(IF can_write(fs, out)
                                                            THEN CodecError ELSE OSError(out))))
              ELSE Step(i, [t1 EXCEPT !.pc = "mcf_reread"])
    /\ UNCHANGED <<op, inputs, support, enhancement_prompts, served>>

\* Variant of MaybeCompressReread: an output still above the threshold is
\* downsampled again, in place
MaybeCompressReread_retry(i) ==
    /\ i \in 1..Len(tasks)
    /\ tasks[i].pc = "mcf_reread"
    /\ LET t == tasks[i]
           out == t.dest.val
           ok == can_read(fs, out)
           t1 == Log(t, Event("maybe_compress_file", "read", out, ok, FALSE))
       IN  IF ~ok THEN Step(i, Raise(t1, compress_audio_raise(t.item, OSError(out))))
           ELSE IF fs[out].size > t.item.max_mb * 1024 * 1024
                THEN Step(i, [t1 EXCEPT !.size_seen = Some(fs[out].size), !.input_file = out,
                                        !.output_path = Some(out), !.pc = "cmp_load"])
           ELSE Step(i, Return([t1 EXCEPT !.size_seen = Some(fs[out].size)],
                               [output_path |-> out]))
    /\ UNCHANGED <<fs, op, inputs, support, enhancement_prompts, served>>

\* maybe_compress_file after the downsample: the new size is read and printed
MaybeCompressReread(i) ==
    /\ i \in 1..Len(tasks)
    /\ tasks[i].pc = "mcf_reread"
    /\ LET t == tasks[i]
           out == t.dest.val
           ok == can_read(fs, out)
           t1 == Log(t, Event("maybe_compress_file", "read", out, ok, FALSE))
       IN  IF ~ok THEN Step(i, Raise(t1, compress_audio_raise(t.item, OSError(out))))
           ELSE Step(i, Return([t1 EXCEPT !.size_seen = Some(fs[out].size)],
                               [output_path |-> out]))
    /\ UNCHANGED <<fs, op, inputs, support, enhancement_prompts, served>>

\* --------------------------------------------- format capability resolver
\* Variant of audio_file_support: the extension is compared as written
audio_file_support_case_sensitive(file_path) ==
    LET file_ext == suffix(file_path)
    IN  [file_path |-> file_path,
         transcription_support |->
             IF file_ext \in WHISPER_AUDIO_FORMATS THEN Some(<<WhisperDefault>>) ELSE None,
         llm_support |->
             IF file_ext \in GPT_4O_AUDIO_FORMATS THEN Some(<<AudioLLMDefault>>) ELSE None]

\* Variant of audio_file_support: an unsupported format gives an empty list
audio_file_support_empty_list(file_path) ==
    LET file_ext == lower(suffix(file_path))
    IN  [file_path |-> file_path,
         transcription_support |->
             IF file_ext \in WHISPER_AUDIO_FORMATS THEN Some(<<WhisperDefault>>) ELSE Some(<<>>),
         llm_support |->
             IF file_ext \in GPT_4O_AUDIO_FORMATS THEN Some(<<AudioLLMDefault>>) ELSE Some(<<>>)]

\* lines 122-127 and 129-132: the two support fields, from the extension
audio_file_support(file_path) ==
    LET file_ext == lower(suffix(file_path))
    IN  [file_path |-> file_path,
         transcription_support |->
             IF file_ext \in WHISPER_AUDIO_FORMATS THEN Some(<<WhisperDefault>>) ELSE None,
         llm_support |->
             IF file_ext \in GPT_4O_AUDIO_FORMATS THEN Some(<<AudioLLMDefault>>) ELSE None]

\* get_audio_file_support: file_path.stat() raises for a path that is absent
get_audio_file_support(file_path) ==
    /\ op = "idle"
    /\ op' = "get_audio_file_support"
    /\ support' = IF exists(fs, file_path)
                  THEN Some(audio_file_support(file_path))
                  ELSE [tag |-> "Raised", val |-> OSError(file_path)]
    /\ UNCHANGED <<fs, inputs, tasks, outer, enhancement_prompts, served>>

\* ------------------------------------------------ transcription dispatcher
\* Variant of to_transcribe_with_llm_input_params: the default template is
\* used whatever the tag
to_transcribe_with_llm_input_params_default(self) ==
    [input_file_path |-> self.input_file_path,
     text_prompt |-> Some(enhancement_prompts["detailed"]),
     model |-> self.model]

\* TranscribeWithEnhancementInputParams.to_transcribe_with_llm_input_params
to_transcribe_with_llm_input_params(self) ==
    [input_file_path |-> self.input_file_path,
     text_prompt |-> Some(enhancement_prompts[self.enhancement_type]),
     model |-> self.model]

\* lines 338 and 371
FileNotFoundError(p) == Exc("FileNotFoundError", "File not found:", {p})
\* AsyncOpenAI() without credentials
OpenAIError == Exc("OpenAIError", "api_key must be set", {})
\* line 357
whisper_raise(file_path, e) ==
    Exc("RuntimeError", "Whisper processing failed for", {file_path} \cup e.paths)
\* line 374
AssertionError == Exc("AssertionError", "Expected mp3 or wav extension, but got", {})
\* line 382
read_raise(file_path, e) ==
    Exc("RuntimeError", "Failed reading audio file", {file_path} \cup e.paths)
\* line 403
gpt_raise(file_path, e) ==
    Exc("RuntimeError", "GPT-4 processing failed for", {file_path} \cup e.paths)

\* the remote speech-to-text model's answer for a file's bytes
speech_to_text(model, content) == <<"transcript", model, content.audio>>

\* base64.b64encode(audio_bytes).decode("utf-8")
b64encode(content) == <<"b64", content.audio, content.size>>

\* the remote chat model's answer for a message
chat_completion(model, user_content) == <<"completion", model, user_content>>

\* line 373: file_path.suffix.lower().replace(".", "")
extension(file_path) == SelectSeq(lower(suffix(file_path)), LAMBDA a : a # ".")

\* Variant of build_user_content: any prompt that is not None gets a text part
build_user_content_not_none(text_prompt, audio_b64, ext) ==
    (IF ~IsNone(text_prompt)
     THEN <<[type |-> "text", text |-> text_prompt.val]>> ELSE <<>>)
    \o <<[type |-> "input_audio", data |-> audio_b64, format |-> ext]>>

\* lines 385-393: an optional text part, then the audio part
build_user_content(text_prompt, audio_b64, ext) ==
    (IF ~IsNone(text_prompt) /\ text_prompt.val # ""
     THEN <<[type |-> "text", text |-> text_prompt.val]>> ELSE <<>>)
    \o <<[type |-> "input_audio", data |-> audio_b64, format |-> ext]>>

\* transcribe_audio.process_single up to the first await
TranscribeCheck(i, has_key) ==
    /\ i \in 1..Len(tasks)
    /\ tasks[i].pc = "ta_check"
    /\ LET t == tasks[i]
           file_path == t.item.input_file_path
       IN  IF ~exists(fs, file_path) \/ ~is_file(fs, file_path)
           THEN Step(i, Raise(t, FileNotFoundError(file_path)))
           ELSE IF ~has_key THEN Step(i, Raise(t, OpenAIError))
           ELSE Step(i, [t EXCEPT !.pc = "ta_read"])
    /\ UNCHANGED <<fs, op, inputs, support, enhancement_prompts, served>>

\* transcribe_audio.process_single: the file is read
TranscribeRead(i) ==
    /\ i \in 1..Len(tasks)
    /\ tasks[i].pc = "ta_read"
    /\ LET t == tasks[i]
           file_path == t.item.input_file_path
           ok == can_read(fs, file_path)
           t1 == Log(t, Event("transcribe_audio", "read", file_path, ok, FALSE))
       IN  IF ~ok THEN Step(i, Raise(t1, whisper_raise(file_path, OSError(file_path))))
           ELSE Step(i, [t1 EXCEPT !.pc = "ta_call", !.audio = Some(fs[file_path])])
    /\ UNCHANGED <<fs, op, inputs, support, enhancement_prompts, served>>

\* Variant of TranscribeCall: a failed remote call is tried a second time
TranscribeCall_retry(i, answers) ==
    /\ i \in 1..Len(tasks)
    /\ tasks[i].pc = "ta_call"
    /\ LET t == tasks[i]
           file_path == t.item.input_file_path
           t1 == Log(t, Event("transcribe_audio", "stt", file_path, answers, FALSE))
       IN  IF ~answers /\ Len(t.trace) < 2 THEN Step(i, t1)
           ELSE IF ~answers THEN Step(i, Raise(t1, whisper_raise(file_path, APIError)))
           ELSE Step(i, Return(t1, [text |-> speech_to_text(t.item.model, t.audio.val)]))
    /\ UNCHANGED <<fs, op, inputs, support, enhancement_prompts, served>>

\* transcribe_audio.process_single: the remote call and the return
TranscribeCall(i, answers) ==
    /\ i \in 1..Len(tasks)
    /\ tasks[i].pc = "ta_call"
    /\ LET t == tasks[i]
           file_path == t.item.input_file_path
           t1 == Log(t, Event("transcribe_audio", "stt", file_path, answers, FALSE))
       IN  IF ~answers THEN Step(i, Raise(t1, whisper_raise(file_path, APIError)))
           ELSE Step(i, Return(t1, [text |-> speech_to_text(t.item.model, t.audio.val)]))
    /\ UNCHANGED <<fs, op, inputs, support, enhancement_prompts, served>>

\* Variant of LLMCheck: the extension is checked before the file is looked for
LLMCheck_extension_first(i) ==
    /\ i \in 1..Len(tasks)
    /\ tasks[i].pc = "llm_check"
    /\ LET t == tasks[i]
           file_path == t.item.input_file_path
       IN  IF extension(file_path) \notin {<<"mp3">>, <<"wav">>}
           THEN Step(i, Raise(t, AssertionError))
           ELSE IF ~exists(fs, file_path) \/ ~is_file(fs, file_path)
                THEN Step(i, Raise(t, FileNotFoundError(file_path)))
           ELSE Step(i, [t EXCEPT !.pc = "llm_read"])
    /\ UNCHANGED <<fs, op, inputs, support, enhancement_prompts, served>>

\* transcribe_with_llm.process_single up to the first await
LLMCheck(i) ==
    /\ i \in 1..Len(tasks)
    /\ tasks[i].pc = "llm_check"
    /\ LET t == tasks[i]
           file_path == t.item.input_file_path
       IN  IF ~exists(fs, file_path) \/ ~is_file(fs, file_path)
           THEN Step(i, Raise(t, FileNotFoundError(file_path)))
           ELSE IF extension(file_path) \notin {<<"mp3">>, <<"wav">>}
                THEN Step(i, Raise(t, AssertionError))
           ELSE Step(i, [t EXCEPT !.pc = "llm_read"])
    /\ UNCHANGED <<fs, op, inputs, support, enhancement_prompts, served>>

\* transcribe_with_llm.process_single: the file is read and encoded
LLMRead(i) ==
    /\ i \in 1..Len(tasks)
    /\ tasks[i].pc = "llm_read"
    /\ LET t == tasks[i]
           file_path == t.item.input_file_path
           ok == can_read(fs, file_path)
           t1 == Log(t, Event("transcribe_with_llm", "read", file_path, ok, FALSE))
       IN  IF ~ok THEN Step(i, Raise(t1, read_raise(file_path, OSError(file_path))))
           ELSE Step(i, [t1 EXCEPT !.pc = "llm_call", !.audio = Some(fs[file_path])])
    /\ UNCHANGED <<fs, op, inputs, support, enhancement_prompts, served>>

\* transcribe_with_llm.process_single: the message is built and submitted
LLMCall(i, has_key, answers) ==
    /\ i \in 1..Len(tasks)
    /\ tasks[i].pc = "llm_call"
    /\ LET t == tasks[i]
           file_path == t.item.input_file_path
           user_content == build_user_content(t.item.text_prompt, b64encode(t.audio.val),
                                              extension(file_path))
           t1 == Log([t EXCEPT !.sent = Some(user_content)],
                     Event("transcribe_with_llm", "chat", file_path, answers, FALSE))
       IN  IF ~has_key THEN Step(i, Raise(t, OpenAIError))
           ELSE IF ~answers THEN Step(i, Raise(t1, gpt_raise(file_path, APIError)))
           ELSE Step(i, Return(t1, [text |-> chat_completion(t.item.model, user_content)]))
    /\ UNCHANGED <<fs, op, inputs, support, enhancement_prompts, served>>

\* ------------------------------------------------------------- tool inputs
Lists(S) == UNION {[1..k -> S] : k \in 0..MaxN}

ConvertItem(src, out, fmt) ==
    [input_file_path |-> src, output_file_path |-> out, target_format |-> fmt]

ConvertAudioInputParams ==
    {ConvertItem(a_wav, None, "mp3"), ConvertItem(a_m4a, None, "mp3"),
     ConvertItem(a_mp3, None, "mp3"), ConvertItem(a_m4a, Some(out_x_mp3), "wav"),
     ConvertItem(gone_mp3, None, "wav")}

CompressItem(src, out, mb) ==
    [input_file_path |-> src, output_file_path |-> out, max_mb |-> mb]

CompressAudioInputParams ==
    {CompressItem(a_wav, None, 1), CompressItem(a_wav, None, 25),
     CompressItem(a_wav, Some(a_mp3), 1),
     CompressItem(b_MP3, Some(out_x_mp3), 1), CompressItem(tar_MP3, None, 1),
     CompressItem(gone_mp3, None, 25)}

TranscribeAudioInputParams ==
    [input_file_path : {a_mp3, a_m4a, gone_mp3, sub_wav, locked_mp3},
     model : {WhisperDefault}]

LLMItem(src, prompt) ==
    [input_file_path |-> src, text_prompt |-> prompt, model |-> AudioLLMDefault]

TranscribeWithLLMInputParams ==
    {LLMItem(a_wav, None), LLMItem(a_wav, Some("")),
     LLMItem(a_wav, Some("Summarise the call")), LLMItem(b_MP3, Some("Summarise the call")),
     LLMItem(a_m4a, None), LLMItem(gone_mp3, None), LLMItem(locked_mp3, Some("")),
     LLMItem(gone_m4a, None), LLMItem(sub_wav, None)}

TranscribeWithEnhancementInputParams ==
    [input_file_path : {a_wav}, enhancement_type : EnhancementType,
     model : {AudioLLMDefault}]
    \cup [input_file_path : {c_M4A}, enhancement_type : {"detailed"},
          model : {AudioLLMDefault}]

ResolverPaths == DOMAIN InitFs \cup {gone_mp3}

\* ------------------------------------------------------------------- tools
convert_audio(items) ==
    /\ op = "idle"
    /\ op' = "convert_audio"
    /\ inputs' = items
    /\ gather(items, "cvt_load")
    /\ UNCHANGED <<fs, support, enhancement_prompts, served>>

compress_audio(items) ==
    /\ op = "idle"
    /\ op' = "compress_audio"
    /\ inputs' = items
    /\ gather(items, "mcf_size")
    /\ UNCHANGED <<fs, support, enhancement_prompts, served>>

transcribe_audio(items) ==
    /\ op = "idle"
    /\ op' = "transcribe_audio"
    /\ inputs' = items
    /\ gather(items, "ta_check")
    /\ UNCHANGED <<fs, support, enhancement_prompts, served>>

transcribe_with_llm(items) ==
    /\ op = "idle"
    /\ op' = "transcribe_with_llm"
    /\ inputs' = items
    /\ gather(items, "llm_check")
    /\ UNCHANGED <<fs, support, enhancement_prompts, served>>

transcribe_with_enhancement(items) ==
    /\ op = "idle"
    /\ op' = "transcribe_with_enhancement"
    /\ inputs' = items
    /\ gather([j \in 1..Len(items) |-> to_transcribe_with_llm_input_params(items[j])],
              "llm_check")
    /\ UNCHANGED <<fs, support, enhancement_prompts, served>>

Next ==
    \/ op = "idle" /\ \E file_path \in ResolverPaths : get_audio_file_support(file_path)
    \/ op = "idle" /\ \E items \in Lists(ConvertAudioInputParams) : convert_audio(items)
    \/ op = "idle" /\ \E items \in Lists(CompressAudioInputParams) : compress_audio(items)
    \/ op = "idle" /\ \E items \in Lists(TranscribeAudioInputParams) : transcribe_audio(items)
    \/ op = "idle" /\ \E items \in Lists(TranscribeWithLLMInputParams) : transcribe_with_llm(items)
    \/ op = "idle" /\ \E items \in Lists(TranscribeWithEnhancementInputParams) :
           transcribe_with_enhancement(items)
    \/ \E i \in 1..MaxN, b \in BOOLEAN : ConvertLoad(i, b)
    \/ \E i \in 1..MaxN, b \in BOOLEAN, sz \in ConvertSizes : ConvertExport(i, b, sz)
    \/ \E i \in 1..MaxN : MaybeCompressSize(i)
    \/ \E i \in 1..MaxN, b \in BOOLEAN : CompressLoad(i, b)
    \/ \E i \in 1..MaxN, b \in BOOLEAN, sz \in OutSizes : CompressExport(i, b, sz)
    \/ \E i \in 1..MaxN : MaybeCompressReread(i)
    \/ \E i \in 1..MaxN, k \in BOOLEAN : TranscribeCheck(i, k)
    \/ \E i \in 1..MaxN : TranscribeRead(i)
    \/ \E i \in 1..MaxN, b \in BOOLEAN : TranscribeCall(i, b)
    \/ \E i \in 1..MaxN : LLMCheck(i)
    \/ \E i \in 1..MaxN : LLMRead(i)
    \/ \E i \in 1..MaxN, k \in BOOLEAN, b \in BOOLEAN : LLMCall(i, k, b)

Spec == Init /\ [][Next]_vars

\* The tool's coroutine is over (gather has completed and no worker is left
\* running): the server is ready for the next call.
tool_return ==
    /\ op \in {"transcribe_audio", "transcribe_with_llm", "transcribe_with_enhancement"}
    /\ outer.state # "pending"
    /\ nfinished(tasks) = Len(tasks)
    /\ op' = "idle"
    /\ inputs' = <<>>
    /\ tasks' = <<>>
    /\ outer' = Pending
    /\ served' = TRUE
    /\ UNCHANGED <<fs, support, enhancement_prompts>>

\* The server answering any sequence of transcription calls
NextDispatch ==
    \/ op = "idle" /\ \E items \in Lists(TranscribeAudioInputParams) : transcribe_audio(items)
    \/ op = "idle" /\ \E items \in Lists(TranscribeWithLLMInputParams) : transcribe_with_llm(items)
    \/ op = "idle" /\ \E items \in Lists(TranscribeWithEnhancementInputParams) :
           transcribe_with_enhancement(items)
    \/ \E i \in 1..MaxN, k \in BOOLEAN : TranscribeCheck(i, k)
    \/ \E i \in 1..MaxN : TranscribeRead(i)
    \/ \E i \in 1..MaxN, b \in BOOLEAN : TranscribeCall(i, b)
    \/ \E i \in 1..MaxN : LLMCheck(i)
    \/ \E i \in 1..MaxN : LLMRead(i)
    \/ \E i \in 1..MaxN, k \in BOOLEAN, b \in BOOLEAN : LLMCall(i, k, b)
    \/ tool_return

SpecDispatch == Init /\ [][NextDispatch]_vars

\* ================================================================== claims
BatchTools ==
    {"convert_audio", "compress_audio", "transcribe_audio", "transcribe_with_llm",
     "transcribe_with_enhancement"}

Tasks == 1..Len(tasks)

Failed(i) == ~IsNone(tasks[i].exc)
Succeeded(i) == ~IsNone(tasks[i].result)

Events(i, by, ev) ==
    {k \in 1..Len(tasks[i].trace) : tasks[i].trace[k].by = by /\ tasks[i].trace[k].ev = ev}

\* the paths task i has written (created, replaced or emptied)
Writes(i) ==
    {tasks[i].trace[k].path : k \in {k \in 1..Len(tasks[i].trace) :
        tasks[i].trace[k].ev = "export" /\ tasks[i].trace[k].touched}}

\* the paths task i has opened for reading
Reads(i) ==
    {tasks[i].trace[k].path : k \in {k \in 1..Len(tasks[i].trace) :
        tasks[i].trace[k].ev \in {"read", "from_file"}}}

\* compressed_<original-stem>.mp3 next to the item's source
SiblingOf(src) == Path(src.parent, <<"compressed_">> \o stem(src) \o <<".", "mp3">>)

DestinationOf(item) ==
    IF IsNone(item.output_file_path) THEN SiblingOf(item.input_file_path)
    ELSE item.output_file_path.val

AboveThreshold(i) ==
    /\ op = "compress_audio"
    /\ ~IsNone(tasks[i].file_size)
    /\ tasks[i].file_size.val > tasks[i].item.max_mb * MB

\* what the tool's worker returns for one input when it succeeds
ResultFor(in, r) ==
    CASE op = "convert_audio" ->
           r = [output_path |-> IF IsNone(in.output_file_path)
                                THEN with_suffix(in.input_file_path, <<".", in.target_format>>)
                                ELSE in.output_file_path.val]
      [] op = "compress_audio" ->
           r \in {[output_path |-> in.input_file_path], [output_path |-> DestinationOf(in)]}
      [] op = "transcribe_audio" ->
           r = [text |-> speech_to_text(in.model, fs[in.input_file_path])]
      [] op = "transcribe_with_llm" ->
           r = [text |-> chat_completion(in.model,
                    build_user_content(in.text_prompt, b64encode(fs[in.input_file_path]),
                                       extension(in.input_file_path)))]
      [] op = "transcribe_with_enhancement" ->
           r = [text |-> chat_completion(in.model,
                    build_user_content(Some(ENHANCEMENT_PROMPTS[in.enhancement_type]),
                                       b64encode(fs[in.input_file_path]),
                                       extension(in.input_file_path)))]

\* C1: when a batch tool returns, the list it returns is as long as its
\* input list and its i-th element is the result of the worker on the i-th
\* input, whatever the order in which the workers finished.
C1_BatchOrdering ==
    (op \in BatchTools /\ outer.state = "returned") =>
        /\ Len(outer.results) = Len(inputs)
        /\ \A i \in 1..Len(inputs) :
              /\ Succeeded(i)
              /\ outer.results[i] = tasks[i].result.val
              /\ ResultFor(inputs[i], outer.results[i])

\* a batch of at least two items with different results returned although the
\* worker of the last item was not the last to finish
C1_Witness ==
    /\ op \in BatchTools
    /\ outer.state = "returned"
    /\ Len(inputs) >= 2
    /\ outer.last # Len(inputs)
    /\ outer.results[1] # outer.results[Len(inputs)]

\* C2: as soon as one worker of a batch has failed, the batch call has failed:
\* the caller holds an exception and no result list, whether siblings returned
\* before or after the failure.
C2_FailFast ==
    (op \in BatchTools /\ \E i \in Tasks : Failed(i)) =>
        /\ outer.state = "raised"
        /\ outer.results = <<>>
        /\ ~IsNone(outer.exc)

\* the batch has failed and the worker that finished last, after the failure,
\* returned a result
C2_Witness ==
    /\ op \in BatchTools
    /\ outer.state = "raised"
    /\ outer.last \in Tasks
    /\ Succeeded(outer.last)
    /\ \E i \in Tasks : Failed(i)

\* C3: convert_to_supported_format never writes the file it was given as
\* its source.
C3_SourceNeverWritten ==
    \A i \in Tasks : \A k \in Events(i, "convert", "export") :
        tasks[i].trace[k].touched => tasks[i].trace[k].path # tasks[i].item.input_file_path

\* C4: two workers of one batch never write the same path, and no worker
\* writes a path that another worker of the batch reads or writes.
C4_DisjointPaths ==
    \A i \in Tasks : \A j \in Tasks \ {i} :
        Writes(i) \cap (Writes(j) \cup Reads(j)) = {}

\* C5: a source whose size is at or below max_mb * 1024 * 1024 makes
\* maybe_compress_file return the source path after the one read of its size:
\* no decode, no encode, no file written.
C5_BelowThresholdUntouched ==
    \A i \in Tasks :
        (/\ op = "compress_audio"
         /\ ~IsNone(tasks[i].file_size)
         /\ tasks[i].file_size.val <= tasks[i].item.max_mb * MB) =>
            /\ tasks[i].pc = "done"
            /\ tasks[i].result = Some([output_path |-> tasks[i].item.input_file_path])
            /\ Len(tasks[i].trace) = 1
            /\ tasks[i].trace[1].ev = "read"
            /\ Writes(i) = {}

\* a source exactly at the threshold, with a destination supplied
C5_Witness ==
    \E i \in Tasks :
        /\ op = "compress_audio"
        /\ ~IsNone(tasks[i].file_size)
        /\ tasks[i].file_size.val = tasks[i].item.max_mb * MB
        /\ ~IsNone(tasks[i].item.output_file_path)
        /\ Succeeded(i)

\* the path a compression above the threshold returns is the destination
\* when one is given and compressed_<original-stem>.mp3 beside the source
\* otherwise; the last encode of the task wrote that path
C6_ReturnedPath ==
    /\ \A i \in Tasks :
          (AboveThreshold(i) /\ Succeeded(i)) =>
              /\ tasks[i].result.val = [output_path |-> DestinationOf(tasks[i].item)]
              /\ Events(i, "compress", "export") # {}
              /\ \A k \in Events(i, "compress", "export") :
                    tasks[i].trace[k].ok /\ tasks[i].trace[k].path = DestinationOf(tasks[i].item)
    /\ op = "idle" =>
          \A p \in DOMAIN InitFs :
              compress_output_path(IF needs_conversion(p)
                                   THEN convert_output_path(p, None, "mp3") ELSE p, None)
                  = SiblingOf(p)

\* the step in which the downsample succeeds leaves an mp3 at 11025 Hz at the
\* destination
C6_Downsampled ==
    \A i \in Tasks :
        (/\ i \in 1..Len(tasks')
         /\ tasks[i].pc = "cmp_export"
         /\ tasks'[i].pc = "mcf_reread") =>
            /\ tasks[i].dest.val \in DOMAIN fs'
            /\ fs'[tasks[i].dest.val].rate = 11025
            /\ fs'[tasks[i].dest.val].fmt = "mp3"

\* C6: a successful compression of a source above the threshold returns the
\* path of a file re-encoded at 11025 Hz: the supplied destination, or else
\* compressed_<original-stem>.mp3 in the source's directory, for mp3 and
\* other sources alike.
C6_CompressedResult == [](C6_ReturnedPath) /\ [][C6_Downsampled]_vars

\* a source that is not an mp3, above the threshold, no destination supplied
C6_Witness ==
    \E i \in Tasks :
        /\ AboveThreshold(i)
        /\ Succeeded(i)
        /\ needs_conversion(tasks[i].item.input_file_path)
        /\ IsNone(tasks[i].item.output_file_path)
        /\ tasks[i].result.val.output_path \in DOMAIN fs
        /\ fs[tasks[i].result.val.output_path].rate = 11025

\* C7: the compression pipeline downsamples at most once per call; once the
\* size of the downsampled file has been read the call is over and returns
\* the downsample's output, whatever that size is.
C7_SinglePass ==
    \A i \in Tasks :
        /\ Cardinality(Events(i, "compress", "export")) <= 1
        /\ Cardinality(Events(i, "compress", "from_file")) <= 1
        /\ ~IsNone(tasks[i].size_seen) =>
              /\ tasks[i].pc = "done"
              /\ tasks[i].result = Some([output_path |-> tasks[i].dest.val])
              /\ Cardinality(Events(i, "compress", "export")) = 1

\* the downsampled file is still above the threshold and is returned
C7_Witness ==
    \E i \in Tasks :
        /\ op = "compress_audio"
        /\ ~IsNone(tasks[i].size_seen)
        /\ tasks[i].size_seen.val > tasks[i].item.max_mb * MB
        /\ Succeeded(i)

\* C8: the exception of a failed worker names the input file path of its
\* item, for a missing or non-regular file, an unsupported extension, a codec
\* failure, a read failure and a remote call failure.
C8_ErrorNamesPath ==
    \A i \in Tasks :
        (Failed(i) /\ tasks[i].exc.val.type # "OpenAIError") =>
            tasks[i].item.input_file_path \in tasks[i].exc.val.paths

Resolved == op = "get_audio_file_support" /\ support.tag = "Some"

IsEmptyList(v) == v.tag = "Some" /\ v.val = <<>>

ResolvedExt == lower(suffix(support.val.file_path))

WhisperExts == {<<".", e>> : e \in {"mp3", "wav", "mp4", "mpeg", "mpga", "m4a", "webm"}}
ChatExts == {<<".", e>> : e \in {"mp3", "wav"}}

ExpandedRequest(in) ==
    [input_file_path |-> in.input_file_path,
     text_prompt |-> Some(ENHANCEMENT_PROMPTS[in.enhancement_type]),
     model |-> in.model]

\* the text parts of a submitted message
TextParts(content) == SelectSeq(content, LAMBDA part : part.type = "text")

\* in every state, after any number of answered calls: the table is the four
\* templates of the module, and the worker of an enhancement request holds the
\* chat request with the template of its tag, the same file and the same
\* model, and submits that template as the text of its message
C11_ExpansionState ==
    /\ DOMAIN enhancement_prompts = {"detailed", "storytelling", "professional", "analytical"}
    /\ enhancement_prompts = ENHANCEMENT_PROMPTS
    /\ op = "transcribe_with_enhancement" =>
          /\ Len(tasks) = Len(inputs)
          /\ \A i \in 1..Len(inputs) :
                /\ tasks[i].item = ExpandedRequest(inputs[i])
                /\ ~IsNone(tasks[i].sent) =>
                      TextParts(tasks[i].sent.val) =
                          <<[type |-> "text", text |-> ENHANCEMENT_PROMPTS[inputs[i].enhancement_type]]>>

\* C11: enhancement expansion maps each of the four tags to its fixed
\* template on every call, keeps the file path and the model, and no step of
\* the server changes the template table.
C11_EnhancementExpansion ==
    [](C11_ExpansionState) /\ [][enhancement_prompts' = enhancement_prompts]_vars

\* a "professional" request, served after an earlier call was answered, whose
\* submitted text is the professional template
C11_Witness ==
    /\ served
    /\ op = "transcribe_with_enhancement"
    /\ \E i \in 1..Len(inputs) :
          /\ inputs[i].enhancement_type = "professional"
          /\ ~IsNone(tasks[i].sent)
          /\ tasks[i].sent.val[1].text =
                "Transcribe this audio and format it in a professional, business-appropriate manner. Clean up any verbal fillers and structure it clearly."

ExternalCalls == {"from_file", "export", "stt", "chat"}

\* C12: a worker calls each external capability (decode and encode of the
\* conversion, decode and encode of the downsample, speech-to-text, chat
\* completion) at most once, and a failed external call or file read is the
\* last thing the worker does: it has failed and issues nothing further.
C12_NoRetry ==
    \A i \in Tasks :
        /\ \A k \in 1..Len(tasks[i].trace) : \A l \in 1..Len(tasks[i].trace) :
              (/\ k # l
               /\ tasks[i].trace[k].ev \in ExternalCalls
               /\ tasks[i].trace[k].ev = tasks[i].trace[l].ev)
                  => tasks[i].trace[k].by # tasks[i].trace[l].by
        /\ \A k \in 1..Len(tasks[i].trace) :
              ~tasks[i].trace[k].ok =>
                  /\ k = Len(tasks[i].trace)
                  /\ tasks[i].pc = "done"
                  /\ Failed(i)

\* a worker that failed on its second external step, an encode or a remote
\* call that did not succeed
C12_Witness ==
    \E i \in Tasks :
        /\ Failed(i)
        /\ Len(tasks[i].trace) >= 2
        /\ ~tasks[i].trace[Len(tasks[i].trace)].ok
        /\ tasks[i].trace[Len(tasks[i].trace)].ev \in {"export", "stt", "chat"}

\* the source path with its extension, if it has one, replaced by fmt
Retargeted(src, fmt) == Path(src.parent, stem(src) \o <<".", fmt>>)

ConvertDestination(item) ==
    IF IsNone(item.output_file_path)
    THEN Retargeted(item.input_file_path, item.target_format)
    ELSE item.output_file_path.val

\* C13: a conversion that succeeds has written and returns the supplied
\* destination, or without one the source path with its extension replaced
\* by the target format, for mp3 and wav and for every source name.
C13_ConversionDestination ==
    /\ \A i \in Tasks :
          (op = "convert_audio" /\ Succeeded(i)) =>
              /\ tasks[i].result.val = [output_path |-> ConvertDestination(tasks[i].item)]
              /\ ConvertDestination(tasks[i].item) \in Writes(i)
              /\ Writes(i) = {ConvertDestination(tasks[i].item)}
              /\ is_file(fs, ConvertDestination(tasks[i].item))
    /\ op = "idle" =>
          \A p \in DOMAIN InitFs : \A fmt \in {"mp3", "wav"} :
              /\ convert_output_path(p, None, fmt) = Retargeted(p, fmt)
              /\ convert_output_path(p, Some(out_x_mp3), fmt) = out_x_mp3

\* an m4a source converted without a destination: in/a.mp3 is returned
C13_Witness ==
    \E i \in Tasks :
        /\ op = "convert_audio"
        /\ Succeeded(i)
        /\ tasks[i].item.input_file_path = a_m4a
        /\ IsNone(tasks[i].item.output_file_path)
        /\ tasks[i].result.val.output_path = a_mp3

IsMp3(p) == lower(suffix(p)) = <<".", "mp3">>

\* the events of task i made by function by
EventsBy(i, by) == {k \in 1..Len(tasks[i].trace) : tasks[i].trace[k].by = by}

\* where the pipeline of task i is once its source was found above the
\* threshold: the conversion, if any, comes first and exactly once, reads the
\* source and writes the source retargeted to mp3; the downsample reads that
\* converted file; an mp3 source is never converted
C14_EnsureMp3State ==
    \A i \in Tasks :
        AboveThreshold(i) =>
            LET src == tasks[i].item.input_file_path
                tr == tasks[i].trace
            IN  IF ~IsMp3(src)
                THEN /\ Cardinality(Events(i, "convert", "from_file")) =
                            (IF tasks[i].pc = "cvt_load" THEN 0 ELSE 1)
                     /\ Cardinality(Events(i, "convert", "export")) <= 1
                     /\ \A k \in Events(i, "convert", "from_file") : tr[k].path = src
                     /\ \A k \in Events(i, "convert", "export") :
                           tr[k].path = Retargeted(src, "mp3")
                     /\ \A k \in EventsBy(i, "compress") :
                           /\ \E l \in Events(i, "convert", "export") : l < k /\ tr[l].ok
                           /\ tr[k].ev = "from_file" =>
                                 tr[k].path = Retargeted(src, "mp3") /\ tr[k].path # src
                ELSE /\ EventsBy(i, "convert") = {}
                     /\ \A k \in Events(i, "compress", "from_file") : tr[k].path = src

\* the step in which the pipeline's conversion succeeds leaves an mp3 at the
\* retargeted path and hands that path to the downsample
C14_EnsureMp3Step ==
    \A i \in Tasks :
        (/\ op = "compress_audio"
         /\ i \in 1..Len(tasks')
         /\ tasks[i].pc = "cvt_export"
         /\ tasks'[i].pc = "cmp_load") =>
            /\ tasks'[i].input_file = Retargeted(tasks[i].item.input_file_path, "mp3")
            /\ fs'[tasks'[i].input_file].fmt = "mp3"

\* C14: above the threshold a source that is not an mp3 is converted exactly
\* once, before the downsample, to mp3 at the default-derived path, and the
\* downsample reads the converted path; an mp3 source is never converted.
C14_EnsureMp3 == [](C14_EnsureMp3State) /\ [][C14_EnsureMp3Step]_vars

\* a wav source whose downsample has read the converted in/a.mp3
C14_Witness ==
    \E i \in Tasks :
        /\ AboveThreshold(i)
        /\ tasks[i].item.input_file_path = a_wav
        /\ \E k \in Events(i, "compress", "from_file") :
              tasks[i].trace[k].ok /\ tasks[i].trace[k].path = a_mp3

\* task i's conversion step inside the compression pipeline has failed
EnsureMp3Failed(i) ==
    /\ op = "compress_audio"
    /\ \E k \in EventsBy(i, "convert") : ~tasks[i].trace[k].ok

\* C15: when the conversion step of the compression pipeline fails the task
\* ends with an error, the downsample is never invoked, no path is returned,
\* and the task writes no file at its destination (the supplied destination or
\* compressed_<stem>.mp3).
C15_AsStated ==
    \A i \in Tasks :
        EnsureMp3Failed(i) =>
            /\ Failed(i)
            /\ tasks[i].pc = "done"
            /\ EventsBy(i, "compress") = {}
            /\ IsNone(tasks[i].result)
            /\ DestinationOf(tasks[i].item) \notin Writes(i)

ChatTools == {"transcribe_with_llm", "transcribe_with_enhancement"}

\* the extension of p in lower case and without its dot
LowerExt(p) == IF suffix(p) = <<>> THEN <<>> ELSE Tail(lower(suffix(p)))

ChatExt(p) == LowerExt(p) \in {<<"mp3">>, <<"wav">>}

\* C16: on the chat path the existence check comes first, then the extension
\* check, then the read, then the remote call: a missing or non-regular file
\* fails with FileNotFoundError and an existing file with another extension
\* with the assertion, both before anything is read; the remote call follows a
\* successful read of the file; the audio part's format is the lower-cased
\* extension.
C16_CheckOrder ==
    \A i \in Tasks :
        op \in ChatTools =>
            LET t == tasks[i]
                file == t.item.input_file_path
            IN  /\ ~is_file(fs, file) =>
                      /\ t.trace = <<>>
                      /\ t.pc = "llm_check" \/ (Failed(i) /\ t.exc.val.type = "FileNotFoundError")
                /\ (is_file(fs, file) /\ ~ChatExt(file)) =>
                      /\ t.trace = <<>>
                      /\ t.pc = "llm_check" \/ (Failed(i) /\ t.exc.val.type = "AssertionError")
                /\ \A k \in 1..Len(t.trace) :
                      /\ t.trace[k].path = file
                      /\ t.trace[k].ev = "read" => k = 1
                      /\ t.trace[k].ev = "chat" =>
                            /\ k = 2
                            /\ t.trace[1].ev = "read" /\ t.trace[1].ok
                /\ ~IsNone(t.sent) =>
                      /\ Events(i, "transcribe_with_llm", "chat") # {}
                      /\ t.sent.val[Len(t.sent.val)].format = LowerExt(file)

\* in one batch a missing file with an extension the chat model does not take
\* has failed as not found, and an upper-case .MP3 has been submitted as mp3
C16_Witness ==
    /\ op = "transcribe_with_llm"
    /\ \E i, j \in Tasks :
          /\ tasks[i].item.input_file_path = gone_m4a
          /\ Failed(i) /\ tasks[i].exc.val.type = "FileNotFoundError"
          /\ tasks[j].item.input_file_path = b_MP3
          /\ Events(j, "transcribe_with_llm", "chat") # {}
          /\ tasks[j].sent.val[Len(tasks[j].sent.val)].format = <<"mp3">>

\* the prompt request i of the running chat tool carries: its text_prompt, or
\* the template of its enhancement tag
RequestPrompt(i) ==
    IF op = "transcribe_with_enhancement"
    THEN Some(ENHANCEMENT_PROMPTS[inputs[i].enhancement_type])
    ELSE inputs[i].text_prompt

AudioParts(content) == SelectSeq(content, LAMBDA part : part.type = "input_audio")

\* the shape of a submitted message: one audio part, last, and before it at
\* most one text part holding the request's prompt
MessageShape(i) ==
    LET content == tasks[i].sent.val
    IN  /\ Len(content) \in {1, 2}
        /\ content[Len(content)].type = "input_audio"
        /\ Len(AudioParts(content)) = 1
        /\ Len(TextParts(content)) = Len(content) - 1
        /\ Len(content) = 2 =>
              content[1] = [type |-> "text", text |-> RequestPrompt(i).val]

\* C17 as stated: the message has that shape and its text part is present
\* exactly when the request carries a prompt.
C17_AsStated ==
    \A i \in Tasks :
        (op \in ChatTools /\ ~IsNone(tasks[i].sent)) =>
            /\ MessageShape(i)
            /\ TextParts(tasks[i].sent.val) # <<>> <=> ~IsNone(RequestPrompt(i))

\* C17: the submitted message is one audio part, last, preceded by at most one
\* text part; the text part is present exactly when the request carries a
\* prompt that is not the empty string, and it holds that prompt.
C17_MessageStructure ==
    \A i \in Tasks :
        (op \in ChatTools /\ ~IsNone(tasks[i].sent)) =>
            /\ MessageShape(i)
            /\ TextParts(tasks[i].sent.val) # <<>> <=>
                  (~IsNone(RequestPrompt(i)) /\ RequestPrompt(i).val # "")

\* a request whose prompt is the empty string has been submitted without a
\* text part
C17_Witness ==
    \E i \in Tasks :
        /\ op = "transcribe_with_llm"
        /\ inputs[i].text_prompt = Some("")
        /\ ~IsNone(tasks[i].sent)
        /\ Len(tasks[i].sent.val) = 1
        /\ Events(i, "transcribe_with_llm", "chat") # {}

\* the name of p ends in a dot and mp3 in any letter case, after a stem
EndsInMp3(p) ==
    /\ Len(p.name) >= 3
    /\ p.name[Len(p.name) - 1] = "."
    /\ lower_atom(p.name[Len(p.name)]) = "mp3"

\* the path maybe_compress_file hands to the downsample for source p
DownsampleInput(p) ==
    IF needs_conversion(p) THEN convert_output_path(p, None, "mp3") ELSE p

\* C18: whenever the pipeline is at the downsample step the path it passes
\* ends in .mp3 in some letter case, so the downsample's own extension guard
\* never fires; this is so for every source name, with or without extension.
C18_DownsampleGetsMp3 ==
    /\ \A i \in Tasks :
          op = "compress_audio" =>
              /\ tasks[i].pc \in {"cmp_load", "cmp_export"} => EndsInMp3(tasks[i].input_file)
              /\ \A k \in EventsBy(i, "compress") :
                    tasks[i].trace[k].ev = "from_file" => EndsInMp3(tasks[i].trace[k].path)
              /\ Failed(i) => tasks[i].exc.val.type # "ValueError"
    /\ op = "idle" =>
          \A p \in DOMAIN InitFs \cup {gone_mp3, gone_m4a} : EndsInMp3(DownsampleInput(p))

\* the downsample is about to start on in/a.tar.MP3 in one task and on the
\* conversion of in/a.wav in another
C18_Witness ==
    /\ op = "compress_audio"
    /\ \E i, j \in Tasks :
          /\ tasks[i].pc = "cmp_load"
          /\ tasks[i].input_file = tar_MP3
          /\ tasks[j].pc = "cmp_load"
          /\ tasks[j].item.input_file_path = a_wav
          /\ tasks[j].input_file = a_mp3

\* some step of task i's coroutine
TaskStep(i) ==
    \/ \E b \in BOOLEAN : ConvertLoad(i, b) \/ CompressLoad(i, b) \/ TranscribeCall(i, b)
    \/ \E b \in BOOLEAN, sz \in ConvertSizes : ConvertExport(i, b, sz)
    \/ \E b \in BOOLEAN, sz \in OutSizes : CompressExport(i, b, sz)
    \/ MaybeCompressSize(i) \/ MaybeCompressReread(i)
    \/ \E k \in BOOLEAN : TranscribeCheck(i, k)
    \/ TranscribeRead(i) \/ LLMCheck(i) \/ LLMRead(i)
    \/ \E k \in BOOLEAN, b \in BOOLEAN : LLMCall(i, k, b)

Running(i) == tasks[i].pc # "done"

\* once the batch has failed, the failure it reports is a child's own and the
\* children still running have neither result nor exception and can take
\* their next step
C19_SiblingsRun ==
    (op \in BatchTools /\ outer.state = "raised") =>
        /\ \E i \in Tasks : Failed(i) /\ outer.exc = tasks[i].exc
        /\ \A j \in Tasks :
              Running(j) => /\ ~Failed(j) /\ ~Succeeded(j)
                            /\ ENABLED TaskStep(j)

\* a step inside a batch changes one task only, whether or not it fails it,
\* keeps every file, and changes a file only by that task's own export to it
C19_SideEffectsStay ==
    (op \in BatchTools /\ op' = op) =>
        /\ Len(tasks') = Len(tasks)
        /\ Cardinality({j \in Tasks : tasks'[j] # tasks[j]}) <= 1
        /\ fs' # fs =>
              /\ DOMAIN fs \subseteq DOMAIN fs'
              /\ \A p \in DOMAIN fs' :
                    (p \notin DOMAIN fs \/ fs'[p] # fs[p]) =>
                        \E j \in Tasks :
                            /\ Len(tasks'[j].trace) = Len(tasks[j].trace) + 1
                            /\ tasks'[j].trace[Len(tasks'[j].trace)].ev = "export"
                            /\ tasks'[j].trace[Len(tasks'[j].trace)].path = p

\* C19: the failure of one task cancels no sibling: the siblings still running
\* when the batch reports the failure go on, each step touches one task, and
\* the files the tasks write, before or after the failure, stay on disk.
C19_NoCancellation == [](C19_SiblingsRun) /\ [][C19_SideEffectsStay]_vars

\* a conversion has failed the batch and a sibling has since finished, its
\* output written and on disk
C19_Witness ==
    /\ op = "convert_audio"
    /\ outer.state = "raised"
    /\ \E i, j \in Tasks :
          /\ i # j
          /\ Failed(i) /\ outer.exc = tasks[i].exc
          /\ outer.last = j
          /\ Succeeded(j)
          /\ tasks[j].result.val.output_path \in Writes(j)
          /\ is_file(fs, tasks[j].result.val.output_path)
          /\ fs[tasks[j].result.val.output_path].size > 0

====
